---- MODULE Spec2Model ----
(***************************************************************************)
(* A model of app.py: the file validator, the text extractor, the prompt   *)
(* templates and the builder and analyzer request handlers, with several   *)
(* analyzer requests served concurrently over one upload directory.        *)
(*                                                                         *)
(* Strings are sequences: a filename or a path is a sequence of one-       *)
(* character strings, a text (extracted text, prompt, flash message) a     *)
(* sequence of words.  `"Error" in text` is then `text` holding the word   *)
(* "Error".                                                                *)
(***************************************************************************)
EXTENDS Naturals, Sequences, FiniteSets

\* ------------------------------------------------------------ bounds

\* Longest filename of the exhaustive validator inputs.
MaxNameLen == 5

\* Number of analyzer requests the server handles concurrently.
NumRequests == 2

\* ------------------------------------------------------- characters

\* The characters filenames are drawn from.
Alphabet == {".", "p", "d", "f", "P", "o", "c", "x"}

\* str.lower() on one character.
LowerChar(c) ==
    CASE c = "P" -> "p"
      [] c = "D" -> "d"
      [] c = "F" -> "f"
      [] c = "O" -> "o"
      [] c = "C" -> "c"
      [] c = "X" -> "x"
      [] OTHER -> c

\* str.lower()
lower(s) == [i \in 1..Len(s) |-> LowerChar(s[i])]

\* '.' in filename
HasDot(s) == \E i \in 1..Len(s) : s[i] = "."

\* The scan of rsplit('.', 1): the index of the last '.' at or before i, 0 if none.
RECURSIVE LastDot(_, _)
LastDot(s, i) ==
    IF i = 0 THEN 0
    ELSE IF s[i] = "." THEN i
    ELSE LastDot(s, i - 1)

\* filename.rsplit('.', 1): at most one split, at the last '.'.
rsplit1(s) ==
    LET k == LastDot(s, Len(s))
    IN  IF k = 0 THEN <<s>>
        ELSE <<SubSeq(s, 1, k - 1), SubSeq(s, k + 1, Len(s))>>

ALLOWED_EXTENSIONS == {<<"p", "d", "f">>, <<"d", "o", "c", "x">>}

\* The mutant of allowed_file: the suffix is compared without lower().
allowed_file_case_sensitive(filename) ==
    HasDot(filename) /\ rsplit1(filename)[2] \in ALLOWED_EXTENSIONS

allowed_file(filename) ==
    HasDot(filename) /\ lower(rsplit1(filename)[2]) \in ALLOWED_EXTENSIONS

\* str.endswith
endswith(s, suffix) ==
    /\ Len(s) >= Len(suffix)
    /\ SubSeq(s, Len(s) - Len(suffix) + 1, Len(s)) = suffix

UPLOAD_FOLDER == <<"uploads">>

\* os.path.join(app.config['UPLOAD_FOLDER'], file.filename), for a relative filename.
path_join(folder, filename) == folder \o <<"/">> \o filename

\* -------------------------------------------------- uploaded documents

\* One page (PDF) or paragraph (DOCX): `none` is extract_text() returning None.
Part(words) == [none |-> FALSE, text |-> words]
NoTextPart == [none |-> TRUE, text |-> <<>>]

\* A document the extraction library reads: three parts, the second a page without text.
DocClean ==
    [readable |-> TRUE,
     parts |-> <<Part(<<"Jane", "Doe">>), NoTextPart, Part(<<"SQL">>)>>]

\* A readable document whose own content holds the word "Error".
DocWithError ==
    [readable |-> TRUE, parts |-> <<Part(<<"Fixed", "Error", "rates">>)>>]

\* A document the extraction library cannot read (it raises).
DocCorrupt == [readable |-> FALSE, parts |-> <<>>]

Docs == {DocClean, DocWithError, DocCorrupt}

\* ---------------------------------------------------- upload directory

\* The directory is a function from the paths that exist to the files there; a
\* file records its content and, as its identity, the request that wrote it.

\* file.save(filepath): creates or overwrites the file at filepath.
file_save(fs, filepath, file) ==
    [p \in (DOMAIN fs) \cup {filepath} |-> IF p = filepath THEN file ELSE fs[p]]

\* os.path.exists, the condition under which os.remove does not raise.
path_exists(fs, filepath) == filepath \in DOMAIN fs

\* The mutant of os_remove: the file is left in place.
os_remove_keeps_file(fs, filepath) == fs

\* os.remove(filepath) on an existing file.
os_remove(fs, filepath) == [p \in (DOMAIN fs) \ {filepath} |-> fs[p]]

\* ------------------------------------------------------ text extractor

\* page.extract_text() or ""
OrEmpty(part) == IF part.none \/ part.text = <<>> THEN <<>> ELSE part.text

\* for page in pdf.pages: text += page.extract_text() or ""
RECURSIVE PdfText(_)
PdfText(parts) ==
    IF parts = <<>> THEN <<>> ELSE OrEmpty(Head(parts)) \o PdfText(Tail(parts))

\* for paragraph in doc.paragraphs: text += paragraph.text + "\n"
RECURSIVE DocxText(_)
DocxText(parts) ==
    IF parts = <<>> THEN <<>>
    ELSE Head(parts).text \o <<"\n">> \o DocxText(Tail(parts))

\* The exception the library raises on opening file_path, <<>> when it opens.
OpenError(fs, file_path) ==
    IF ~path_exists(fs, file_path) THEN <<"No", "such", "file">>
    ELSE IF ~fs[file_path].doc.readable THEN <<"not", "a", "document">>
    ELSE <<>>

\* The branch extract_text_from_file takes: a case-sensitive test of the path's end.
ExtractBranch(file_path) ==
    IF endswith(file_path, <<".", "p", "d", "f">>) THEN "pdf"
    ELSE IF endswith(file_path, <<".", "d", "o", "c", "x">>) THEN "docx"
    ELSE "none"

extract_text_from_file(fs, file_path) ==
    LET e == OpenError(fs, file_path)
    IN  CASE ExtractBranch(file_path) = "pdf" ->
                IF e # <<>>
                THEN <<"Error", "extracting", "text", "from", "PDF:">> \o e
                ELSE PdfText(fs[file_path].doc.parts)
          [] ExtractBranch(file_path) = "docx" ->
                IF e # <<>>
                THEN <<"Error", "extracting", "text", "from", "DOCX:">> \o e
                ELSE DocxText(fs[file_path].doc.parts)
          [] OTHER -> <<>>

\* "Error" in resume_text
ContainsError(text) == \E i \in 1..Len(text) : text[i] = "Error"

\* ----------------------------------------------------- prompt templates

\* A template is a sequence of fixed text and named replacement fields.
Lit(t) == [slot |-> FALSE, text |-> t]
Slot(n) == [slot |-> TRUE, text |-> n]

RESUME_ANALYZER_PROMPT ==
    <<Lit("You are a senior business analyst and career coach."),
      Lit("**Resume Text:**"), Slot("resume_text")>>

RESUME_BUILDER_PROMPT ==
    <<Lit("You are a professional YAML code agent."),
      Lit("**User Information to convert to YAML:**"),
      Lit("Name:"), Slot("name"),
      Lit("Email:"), Slot("email"),
      Lit("Phone:"), Slot("phone"),
      Lit("LinkedIn:"), Slot("linkedin"),
      Lit("GitHub:"), Slot("github"),
      Lit("Education:"), Slot("education"),
      Lit("Experience:"), Slot("experience"),
      Lit("Projects:"), Slot("projects"),
      Lit("Skills:"), Slot("skills"),
      Lit("Interests:"), Slot("interests"),
      Lit("Languages:"), Slot("languages"),
      Lit("**Output the complete YAML code block, and nothing else.**"),
      Lit("cv:"),
      Lit("name:"), Slot("name"),
      Lit("location: Location"),
      Lit("email:"), Slot("email"),
      Lit("phone:"), Slot("phone"),
      Lit("social_networks:"),
      Lit("- network: LinkedIn username:"), Slot("linkedin"),
      Lit("- network: GitHub username:"), Slot("github"),
      Lit("sections:"),
      Lit("professional_summary:"), Lit("- '[Generate a 2-3 sentence professional summary]'"),
      Lit("experience:"), Slot("experience"),
      Lit("education:"), Slot("education"),
      Lit("projects:"), Slot("projects"),
      Lit("skills:"), Slot("skills"),
      Lit("interests: - bullet:"), Slot("interests"),
      Lit("languages: - bullet:"), Slot("languages"),
      Lit("design: theme: sb2nov")>>

\* The mutant of Format: a field named a second time is left out.
RECURSIVE FormatFirstOnly(_, _)
FormatFirstOnly(template, args) ==
    IF template = <<>> THEN <<>>
    ELSE LET item == template[Len(template)]
             rest == SubSeq(template, 1, Len(template) - 1)
         IN  FormatFirstOnly(rest, args) \o
             (IF ~item.slot THEN <<item.text>>
              ELSE IF \E i \in 1..Len(rest) : rest[i] = item THEN <<>>
              ELSE args[item.text])

\* str.format(**args): every replacement field gives way to its argument's text.
RECURSIVE Format(_, _)
Format(template, args) ==
    IF template = <<>> THEN <<>>
    ELSE (IF Head(template).slot THEN args[Head(template).text]
          ELSE <<Head(template).text>>) \o Format(Tail(template), args)

\* ------------------------------------------------------------ provider

\* What generate_content does with a prompt: a response, or an exception.
ProviderOutcomes ==
    {[ok |-> TRUE, text |-> <<"**Score**", "80">>],
     [ok |-> FALSE, text |-> <<"quota", "exceeded">>]}

\* markdown.markdown(text)
markdown(text) == <<"<p>">> \o text \o <<"</p>">>

\* ------------------------------------------------------------ responses

NoResponse == [kind |-> "none", location |-> "", flashes |-> <<>>, body |-> <<>>]

\* flash(message, category)
flash(resp, message, category) ==
    [resp EXCEPT !.flashes = Append(@, [category |-> category, message |-> message])]

\* return redirect(location)
redirect(resp, location) == [resp EXCEPT !.kind = "redirect", !.location = location]

\* return render_template(page, ...)
render_template(resp, page, body) ==
    [resp EXCEPT !.kind = "render", !.location = page, !.body = body]

\* An exception no handler catches: the framework answers with its server error page.
unhandled_exception(resp) == [resp EXCEPT !.kind = "error500"]

\* url_for(endpoint), and request.url of a request to that endpoint.
url_for(endpoint) == IF endpoint = "builder" THEN "/builder" ELSE "/analyzer"

\* --------------------------------------------------------------- state

\* The requests the server handles, each to /analyzer or to /builder.
Requests == 1..NumRequests

\* The filenames analyzer requests upload: none, one without a '.', and
\* cv.pdf, cv.PDF, cv.docx.
UploadNames ==
    {<<>>, <<"c", "v">>,
     <<"c", "v", ".", "p", "d", "f">>,
     <<"c", "v", ".", "P", "D", "F">>,
     <<"c", "v", ".", "d", "o", "c", "x">>}

Fields ==
    {"name", "email", "phone", "linkedin", "github", "education", "experience",
     "projects", "skills", "interests", "languages"}

EmptyForm == [f \in Fields |-> ""]

\* What a request carries: its route and method; for the analyzer whether
\* request.files holds 'resume_file', that file's name and its content `doc`,
\* which the handler reads from the request's stream when it saves the upload;
\* for the builder its form.
NoInput ==
    [route |-> "", method |-> "", has_file |-> FALSE, filename |-> <<>>,
     doc |-> DocClean, form |-> EmptyForm]

AnalyzerInputs ==
    {[NoInput EXCEPT !.route = "analyzer", !.method = "GET"],
     [NoInput EXCEPT !.route = "analyzer", !.method = "POST"]}
    \cup {[NoInput EXCEPT !.route = "analyzer", !.method = "POST",
                          !.has_file = TRUE, !.filename = n] : n \in UploadNames}

\* The handler's local variables.
NoLocal ==
    [filepath |-> <<>>, resume_text |-> <<>>, branch |-> "", prompt |-> <<>>,
     provider |-> "none", results |-> <<>>]

VARIABLES
    disk,        \* the upload directory
    pc,          \* pc[r]: the statement request r executes next
    input,       \* input[r]: what request r sent
    local,       \* local[r]: the handler's local variables in request r
    response,    \* response[r]: the flashes and the answer of request r
    steps,       \* steps[r]: the steps request r has completed, in order
    vpc,         \* the validator call's position
    vname,       \* the validator call's filename
    vallowed     \* the validator call's result

rvars == <<disk, pc, input, local, response, steps>>
vvars == <<vpc, vname, vallowed>>
vars == <<rvars, vvars>>

Finish(r, resp) ==
    /\ pc' = [pc EXCEPT ![r] = "done"]
    /\ response' = [response EXCEPT ![r] = resp]

Log(r, step) == steps' = [steps EXCEPT ![r] = Append(@, step)]

\* ------------------------------------------------------------ analyzer

\* The mutant of ControlFlow: the upload is deleted after the provider call.
ControlFlowDeleteLast ==
    [request |-> "save", save |-> "extract", extract |-> "check",
     check |-> "generate", generate |-> "remove", remove |-> "render"]

\* The order of the handler's statements after a valid upload: the statement
\* that follows each one when it completes without returning or raising.
ControlFlow ==
    [request |-> "save", save |-> "extract", extract |-> "remove",
     remove |-> "check", check |-> "generate", generate |-> "render"]

\* The mutant of AnalyzerValidate: the allow-list test is left out of `if file and ...`.
AnalyzerValidateNoAllowList(in) ==
    IF ~in.has_file THEN "no_file_part"
    ELSE IF in.filename = <<>> THEN "no_selected_file"
    ELSE "ok"

\* The handler's tests of the upload; bool(file) is bool(file.filename).
AnalyzerValidate(in) ==
    IF ~in.has_file THEN "no_file_part"
    ELSE IF in.filename = <<>> THEN "no_selected_file"
    ELSE IF in.filename # <<>> /\ allowed_file(in.filename) THEN "ok"
    ELSE "invalid_type"

\* The flash message of each validation failure.
ValidationMessage(v) ==
    CASE v = "no_file_part" -> <<"No", "file", "part">>
      [] v = "no_selected_file" -> <<"No", "selected", "file">>
      [] OTHER -> <<"Invalid", "file", "type.">>

\* The mutant of AnalyzerProviderError: the exception is not caught.
AnalyzerProviderErrorUncaught(resp, e) == unhandled_exception(resp)

\* except Exception as e: flash(...); return redirect(url_for('analyzer'))
AnalyzerProviderError(resp, e) ==
    redirect(flash(resp, <<"Error", "analyzing", "resume:">> \o e, "danger"),
             url_for("analyzer"))

\* A request to /analyzer arrives; the handler runs up to the first statement
\* that touches the upload directory.
AnalyzerRequest(r) ==
    /\ pc[r] = "idle"
    /\ \E in \in AnalyzerInputs :
        /\ input' = [input EXCEPT ![r] = in]
        /\ IF in.method # "POST"
           THEN /\ pc' = [pc EXCEPT ![r] = "render"]
                /\ UNCHANGED response
           ELSE LET v == AnalyzerValidate(in)
                IN  IF v = "ok"
                    THEN /\ pc' = [pc EXCEPT ![r] = ControlFlow.request]
                         /\ UNCHANGED response
                    ELSE Finish(r, redirect(flash(response[r], ValidationMessage(v),
                                                  "danger"),
                                            url_for("analyzer")))
    /\ UNCHANGED <<disk, local, steps, vvars>>

\* filepath = os.path.join(...); file.save(filepath) writes the uploaded content,
\* any document of Docs, to filepath.  The save may raise (the path names a
\* directory, the disk cannot be written), and then wrote no file.
AnalyzerSave(r) ==
    /\ pc[r] = "save"
    /\ LET filepath == path_join(UPLOAD_FOLDER, input[r].filename)
       IN  /\ local' = [local EXCEPT ![r].filepath = filepath]
           /\ \/ \E doc \in Docs :
                    /\ input' = [input EXCEPT ![r].doc = doc]
                    /\ disk' = file_save(disk, filepath, [by |-> r, doc |-> doc])
                    /\ pc' = [pc EXCEPT ![r] = ControlFlow.save]
                    /\ Log(r, "save")
                    /\ UNCHANGED response
              \/ /\ Finish(r, unhandled_exception(response[r]))
                 /\ UNCHANGED <<disk, steps, input>>
    /\ UNCHANGED vvars

\* resume_text = extract_text_from_file(filepath): the extractor opens and reads
\* whatever the path holds at that moment, as one step.
AnalyzerExtract(r) ==
    /\ pc[r] = "extract"
    /\ local' = [local EXCEPT
                   ![r].resume_text = extract_text_from_file(disk, local[r].filepath),
                   ![r].branch = ExtractBranch(local[r].filepath)]
    /\ pc' = [pc EXCEPT ![r] = ControlFlow.extract]
    /\ Log(r, "extract")
    /\ UNCHANGED <<disk, input, response, vvars>>

\* os.remove(filepath): raises FileNotFoundError when the path does not exist.
AnalyzerRemove(r) ==
    /\ pc[r] = "remove"
    /\ IF path_exists(disk, local[r].filepath)
       THEN /\ disk' = os_remove(disk, local[r].filepath)
            /\ pc' = [pc EXCEPT ![r] = ControlFlow.remove]
            /\ Log(r, "delete")
            /\ UNCHANGED response
       ELSE /\ Finish(r, unhandled_exception(response[r]))
            /\ UNCHANGED <<disk, steps>>
    /\ UNCHANGED <<input, local, vvars>>

\* if "Error" in resume_text: flash, redirect; else the prompt is rendered.
AnalyzerCheck(r) ==
    /\ pc[r] = "check"
    /\ IF ContainsError(local[r].resume_text)
       THEN /\ Finish(r, redirect(flash(response[r],
                                        <<"Error", "processing", "file:">>
                                            \o local[r].resume_text,
                                        "danger"),
                                  url_for("analyzer")))
            /\ UNCHANGED local
       ELSE /\ local' = [local EXCEPT ![r].prompt =
                            Format(RESUME_ANALYZER_PROMPT,
                                   [resume_text |-> local[r].resume_text])]
            /\ pc' = [pc EXCEPT ![r] = ControlFlow.check]
            /\ UNCHANGED response
    /\ UNCHANGED <<disk, input, steps, vvars>>

\* try: response = model_pro.generate_content(prompt); markdown(response.text)
\* except Exception: flash, redirect.
AnalyzerGenerate(r) ==
    /\ pc[r] = "generate"
    /\ \E out \in ProviderOutcomes :
        IF out.ok
        THEN /\ local' = [local EXCEPT ![r].provider = "returned",
                                       ![r].results = markdown(out.text)]
             /\ pc' = [pc EXCEPT ![r] = ControlFlow.generate]
             /\ UNCHANGED response
        ELSE /\ local' = [local EXCEPT ![r].provider = "raised"]
             /\ Finish(r, AnalyzerProviderError(response[r], out.text))
    /\ Log(r, "provider")
    /\ UNCHANGED <<disk, input, vvars>>

\* return render_template('analyzer.html', results=analysis_results)
AnalyzerRender(r) ==
    /\ pc[r] = "render"
    /\ Finish(r, render_template(response[r], "analyzer.html", local[r].results))
    /\ Log(r, "render")
    /\ UNCHANGED <<disk, input, local, vvars>>

\* ------------------------------------------------------------- builder

\* The form of the spec's example request.  request.form.get gives None for a
\* field the request does not send, which str.format writes as "None".
CanonicalForm ==
    [name |-> "Jane Doe", email |-> "jane@x.com", phone |-> "555-0100",
     linkedin |-> "janedoe", github |-> "jdoe", education |-> "BSc Statistics",
     experience |-> "Analyst at Acme", projects |-> "Churn dashboard",
     skills |-> "SQL, Tableau", interests |-> "Chess", languages |-> "English"]

FormValues == {CanonicalForm[f] : f \in Fields} \cup {"None"}

\* The builder forms checked: the example form with any one field set to any value.
BuilderForms == {[CanonicalForm EXCEPT ![f] = v] : f \in Fields, v \in FormValues}

\* The keyword arguments of RESUME_BUILDER_PROMPT.format(...)
BuilderArgs(form) == [f \in Fields |-> <<form[f]>>]

\* except Exception as e: flash(...); return redirect(url_for('builder'))
BuilderProviderError(resp, e) ==
    redirect(flash(resp, <<"Error", "generating", "resume:">> \o e, "danger"),
             url_for("builder"))

\* A request to /builder arrives with a form drawn from `forms`: a GET renders
\* the page, a POST reads the form and renders the prompt.
BuilderRequest(r, forms) ==
    /\ pc[r] = "idle"
    /\ \E method \in {"GET", "POST"}, form \in forms :
        IF method = "POST"
        THEN /\ input' = [input EXCEPT ![r] =
                            [NoInput EXCEPT !.route = "builder", !.method = method,
                                            !.form = form]]
             /\ local' = [local EXCEPT ![r].prompt =
                            Format(RESUME_BUILDER_PROMPT, BuilderArgs(form))]
             /\ pc' = [pc EXCEPT ![r] = "builder_generate"]
             /\ UNCHANGED response
        ELSE /\ input' = [input EXCEPT ![r] =
                            [NoInput EXCEPT !.route = "builder", !.method = method]]
             /\ Finish(r, render_template(response[r], "builder.html", <<>>))
             /\ UNCHANGED local
    /\ UNCHANGED <<disk, steps, vvars>>

\* try: response = model_flash.generate_content(prompt); render the YAML
\* except Exception: flash, redirect.
BuilderGenerate(r) ==
    /\ pc[r] = "builder_generate"
    /\ \E out \in ProviderOutcomes :
        IF out.ok
        THEN /\ local' = [local EXCEPT ![r].provider = "returned",
                                       ![r].results = out.text]
             /\ Finish(r, render_template(response[r], "builder.html", out.text))
        ELSE /\ local' = [local EXCEPT ![r].provider = "raised"]
             /\ Finish(r, BuilderProviderError(response[r], out.text))
    /\ Log(r, "provider")
    /\ UNCHANGED <<disk, input, vvars>>

\* ----------------------------------------------------------- validator

\* Every filename over Alphabet of at most MaxNameLen characters.
BoundedNames == UNION {[1..n -> Alphabet] : n \in 0..MaxNameLen}

\* The spec's examples: resume, resume.PDF, resume.pdf.exe.
Resume == <<"r", "e", "s", "u", "m", "e">>
ResumePDF == Resume \o <<".", "P", "D", "F">>
ResumePdfExe == Resume \o <<".", "p", "d", "f", ".", "e", "x", "e">>

NameInputs == BoundedNames \cup UploadNames \cup {Resume, ResumePDF, ResumePdfExe}

\* One call of allowed_file.
ValidatorCall ==
    /\ vpc = "call"
    /\ vallowed' = allowed_file(vname)
    /\ vpc' = "return"
    /\ UNCHANGED <<vname, rvars>>

ValidatorIdle ==
    /\ vpc = "idle"
    /\ vname = <<>>
    /\ vallowed = FALSE

\* -------------------------------------------------------- specifications

RequestsInit ==
    /\ disk = <<>>
    /\ pc = [r \in Requests |-> "idle"]
    /\ input = [r \in Requests |-> NoInput]
    /\ local = [r \in Requests |-> NoLocal]
    /\ response = [r \in Requests |-> NoResponse]
    /\ steps = [r \in Requests |-> <<>>]

\* The server: NumRequests requests, each to /analyzer or /builder, interleaved.
Init == RequestsInit /\ ValidatorIdle

Next ==
    \E r \in Requests :
        \/ AnalyzerRequest(r)
        \/ AnalyzerSave(r)
        \/ AnalyzerExtract(r)
        \/ AnalyzerRemove(r)
        \/ AnalyzerCheck(r)
        \/ AnalyzerGenerate(r)
        \/ AnalyzerRender(r)
        \/ BuilderRequest(r, {CanonicalForm})
        \/ BuilderGenerate(r)

Spec == Init /\ [][Next]_vars

\* One builder request, over every form of BuilderForms.
NextBuilder == BuilderRequest(1, BuilderForms) \/ BuilderGenerate(1)

SpecBuilder == Init /\ [][NextBuilder]_vars

\* allowed_file alone, over every filename of NameInputs.
InitValidator ==
    /\ RequestsInit
    /\ vpc = "call"
    /\ vname \in NameInputs
    /\ vallowed = FALSE

NextValidator == ValidatorCall

SpecValidator == InitValidator /\ [][NextValidator]_vars

\* --------------------------------------------------------------- claims

IsAnalyzerPost(r) == input[r].route = "analyzer" /\ input[r].method = "POST"
IsBuilderPost(r) == input[r].route = "builder" /\ input[r].method = "POST"

\* Request r has completed `step`.
Did(r, step) == \E i \in 1..Len(steps[r]) : steps[r][i] = step

\* The upload directory holds a file that request r wrote.
HoldsFileOf(r) == \E p \in DOMAIN disk : disk[p].by = r

\* The request ended with a 'danger' flash and a redirect to `location`.
DangerRedirect(r, location) ==
    /\ response[r].kind = "redirect"
    /\ response[r].location = location
    /\ response[r].flashes # <<>>
    /\ \A i \in 1..Len(response[r].flashes) : response[r].flashes[i].category = "danger"

OwnText(r) ==
    extract_text_from_file(
        file_save(<<>>, local[r].filepath, [by |-> r, doc |-> input[r].doc]),
        local[r].filepath)

\* C2: every analyzer request that has extracted text extracted the content it
\* uploaded itself, whatever other requests did to the same filename meanwhile.
C2_ExtractsOwnContent ==
    \A r \in Requests :
        (IsAnalyzerPost(r) /\ Did(r, "extract")) => local[r].resume_text = OwnText(r)

\* Two characters are the same letter, whatever their case.
SameLetter(a, b) ==
    \/ a = b
    \/ {a, b} \in {{"p", "P"}, {"d", "D"}, {"f", "F"}, {"o", "O"}, {"c", "C"}, {"x", "X"}}

EqualIgnoringCase(s, t) ==
    Len(s) = Len(t) /\ \A i \in 1..Len(s) : SameLetter(s[i], t[i])

\* f contains a '.', and the text after the last '.' is 'pdf' or 'docx' whatever its case.
HasAllowedSuffix(f) ==
    \E i \in 1..Len(f) :
        /\ f[i] = "."
        /\ \A j \in (i + 1)..Len(f) : f[j] # "."
        /\ \E ext \in {<<"p", "d", "f">>, <<"d", "o", "c", "x">>} :
              EqualIgnoringCase(SubSeq(f, i + 1, Len(f)), ext)

\* C3: allowed_file(f) is true exactly when f contains a '.' and the text after
\* the last '.' is, case-insensitively, 'pdf' or 'docx'; 'resume' is rejected,
\* 'resume.PDF' accepted, 'resume.pdf.exe' rejected.
C3_AllowedFileContract ==
    vpc = "return" =>
        /\ vallowed <=> HasAllowedSuffix(vname)
        /\ vname = Resume => ~vallowed
        /\ vname = ResumePDF => vallowed
        /\ vname = ResumePdfExe => ~vallowed

\* allowed_file has accepted a name with an upper-case suffix.
C3_Witness == vpc = "return" /\ vname = ResumePDF /\ vallowed

\* C4: whenever the provider call of a builder POST or an analyzer POST raises,
\* the request ends with a 'danger' flash and a redirect to its own form, not
\* with an unhandled error.
C4_ProviderFailureHandled ==
    \A r \in Requests :
        local[r].provider = "raised" =>
            /\ pc[r] = "done"
            /\ IsAnalyzerPost(r) => DangerRedirect(r, "/analyzer")
            /\ IsBuilderPost(r) => DangerRedirect(r, "/builder")
            /\ IsAnalyzerPost(r) \/ IsBuilderPost(r)

\* The provider call has failed in an analyzer request and in a builder request.
C4_Witness ==
    \E r1, r2 \in Requests :
        /\ IsAnalyzerPost(r1) /\ local[r1].provider = "raised"
        /\ IsBuilderPost(r2) /\ local[r2].provider = "raised"

\* C5: every finished analyzer POST ended with the rendered analysis page or with
\* a flash message and a redirect; no step's failure escaped as an unhandled
\* exception.
C5_NoUnhandledException ==
    \A r \in Requests :
        (IsAnalyzerPost(r) /\ pc[r] = "done") =>
            \/ response[r].kind = "render"
            \/ response[r].kind = "redirect" /\ response[r].flashes # <<>>

\* The upload of request r passes the handler's three tests.
Eligible(r) ==
    /\ input[r].has_file
    /\ input[r].filename # <<>>
    /\ HasAllowedSuffix(input[r].filename)

\* C6: an analyzer POST writes, extracts or sends its upload to the provider only
\* if the file field is present, the filename non-empty and its suffix allowed; any
\* other analyzer POST ends with a 'danger' flash and a redirect, having written
\* no file and made no provider call.
C6_OnlyAllowListedProcessed ==
    \A r \in Requests :
        IsAnalyzerPost(r) =>
            /\ (Did(r, "save") \/ Did(r, "extract") \/ Did(r, "provider")
                \/ local[r].provider # "none" \/ HoldsFileOf(r)) => Eligible(r)
            /\ ~Eligible(r) =>
                /\ pc[r] = "done"
                /\ DangerRedirect(r, "/analyzer")
                /\ steps[r] = <<>>
                /\ local[r].provider = "none"
                /\ ~HoldsFileOf(r)

\* One request was refused for its filename, which has no allowed suffix, and
\* another was processed up to the provider.
C6_Witness ==
    \E r1, r2 \in Requests :
        /\ IsAnalyzerPost(r1) /\ pc[r1] = "done"
        /\ input[r1].has_file /\ input[r1].filename = <<"c", "v">>
        /\ IsAnalyzerPost(r2) /\ Did(r2, "provider")

\* The positions of the rendered prompt that hold the value v.
Occurrences(v, text) == {i \in 1..Len(text) : text[i] = v}

DistinctValues(form) ==
    \A f, g \in Fields : f # g => form[f] # form[g]

\* The fixed text before each field's line of the user information and before
\* its slot of the YAML skeleton.
InfoLabel ==
    [name |-> "Name:", email |-> "Email:", phone |-> "Phone:",
     linkedin |-> "LinkedIn:", github |-> "GitHub:", education |-> "Education:",
     experience |-> "Experience:", projects |-> "Projects:", skills |-> "Skills:",
     interests |-> "Interests:", languages |-> "Languages:"]

SkeletonLabel ==
    [name |-> "name:", email |-> "email:", phone |-> "phone:",
     linkedin |-> "- network: LinkedIn username:",
     github |-> "- network: GitHub username:", education |-> "education:",
     experience |-> "experience:", projects |-> "projects:", skills |-> "skills:",
     interests |-> "interests: - bullet:", languages |-> "languages: - bullet:"]

\* C7, as claimed: with distinct field values, the rendered builder prompt holds
\* each field's value exactly once.
C7_EachValueOnce ==
    \A r \in Requests :
        (IsBuilderPost(r) /\ DistinctValues(input[r].form)) =>
            \A f \in Fields :
                Cardinality(Occurrences(input[r].form[f], local[r].prompt)) = 1

\* C7, amended: with distinct field values, the rendered builder prompt holds each
\* field's value exactly twice: once on the field's line of the user information
\* and once in the field's slot of the YAML skeleton.
C7_EachValueTwice ==
    \A r \in Requests :
        (IsBuilderPost(r) /\ DistinctValues(input[r].form)) =>
            \A f \in Fields :
                \E i, j \in 2..Len(local[r].prompt) :
                    /\ i < j
                    /\ Occurrences(input[r].form[f], local[r].prompt) = {i, j}
                    /\ local[r].prompt[i - 1] = InfoLabel[f]
                    /\ local[r].prompt[j - 1] = SkeletonLabel[f]

\* A builder POST has rendered its prompt from a form of distinct values, one of
\* them the value of a field the request did not send.
C7_Witness ==
    \E r \in Requests :
        /\ IsBuilderPost(r)
        /\ DistinctValues(input[r].form)
        /\ input[r].form.phone = "None"
        /\ local[r].prompt # <<>>

\* C8: every extraction an analyzer request makes takes the PDF or the DOCX
\* branch of the extractor, never its fall-through.
C8_FallThroughUnreachable ==
    \A r \in Requests :
        (IsAnalyzerPost(r) /\ Did(r, "extract")) => local[r].branch \in {"pdf", "docx"}

\* C9: an analyzer POST whose extracted text holds "Error" ends with a 'danger'
\* flash and a redirect and never calls the provider; one whose text does not
\* goes on to the provider.
C9_ErrorConvention ==
    \A r \in Requests :
        (IsAnalyzerPost(r) /\ Did(r, "extract")) =>
            /\ local[r].provider # "none" => ~ContainsError(local[r].resume_text)
            /\ (pc[r] = "done" /\ ContainsError(local[r].resume_text)) =>
                  DangerRedirect(r, "/analyzer") /\ local[r].provider = "none"
            /\ (pc[r] = "done" /\ ~ContainsError(local[r].resume_text)) =>
                  local[r].provider # "none"

IsPrefix(s, t) == Len(s) <= Len(t) /\ SubSeq(t, 1, Len(s)) = s

\* C10: the steps an analyzer POST has completed are, in this order, save,
\* extract, delete, provider call, render: its delete precedes its provider
\* call, and its provider call follows its extraction.
C10_StepsInOrder ==
    \A r \in Requests :
        IsAnalyzerPost(r) =>
            IsPrefix(steps[r], <<"save", "extract", "delete", "provider", "render">>)

\* An analyzer POST has gone through all five steps.
C10_Witness ==
    \E r \in Requests :
        /\ IsAnalyzerPost(r)
        /\ steps[r] = <<"save", "extract", "delete", "provider", "render">>

====
